---- MODULE Spec2Model ----
(***************************************************************************)
(* Model of the feedback API: the Feedback table (db/models.py), the two   *)
(* endpoints of api/feedback.py and the request guards of api/utils.py.    *)
(***************************************************************************)
EXTENDS Integers, Sequences, FiniteSets, TLC

VARIABLES store, now, op, req, resp, created

vars == <<store, now, op, req, resp, created>>

(* ---------------------------------------------------------------- bounds *)
NumIds == 2
MaxTime == 2

Ids == 1..NumIds
Times == 0..MaxTime

(* ------------------------------------------------------- request inputs  *)
Methods == {"GET", "POST", "DELETE"}
Ratings == {"1", "5", "abc"}
Texts == {"good"}

\* a dict is a function whose DOMAIN is the set of keys present
Dicts(keys, vals) == UNION {[S -> vals] : S \in SUBSET keys}
EmptyDict == [k \in {} |-> ""]
\* the dicts that hold key k with a value of vals, or lack it
Optional(k, vals) == {EmptyDict} \cup {[x \in {k} |-> v] : v \in vals}
Merge(d1, d2) ==
  [k \in DOMAIN d1 \cup DOMAIN d2 |-> IF k \in DOMAIN d1 THEN d1[k] ELSE d2[k]]

FormDicts ==
  {Merge(a, b) : a \in Optional("rating", Ratings), b \in Optional("text", Texts)}

(* ------------------------------------------------------------- results   *)
\* what a wrapped function produces: an HTTP response, an uncaught
\* exception, or (for a guard applied to an arbitrary view) the call of the
\* wrapped view with the derived arguments
Response(status, ok, error, data) ==
  [status |-> status, ok |-> ok, error |-> error, data |-> data,
   args |-> <<>>, exc |-> "", kind |-> "response", kwargs |-> <<>>]
Raise(exc) ==
  [status |-> 500, ok |-> FALSE, error |-> "", data |-> <<>>,
   args |-> <<>>, exc |-> exc, kind |-> "raise", kwargs |-> <<>>]
Call(args, kwargs) ==
  [status |-> 0, ok |-> TRUE, error |-> "", data |-> <<>>,
   args |-> args, exc |-> "", kind |-> "call", kwargs |-> kwargs]

ErrorResponse(message, code) == Response(code, FALSE, message, <<>>)
OkResponse == Response(200, TRUE, "", <<>>)
OkData(data) == Response(200, TRUE, "", data)
NoResponse == Response(0, FALSE, "", <<>>)

(* ----------------------------------------------------------- conversions *)
\* int(value) of IntegerField.get_prep_value: the strings Python's int()
\* accepts, and their values
IntStrings == {"0", "1", "2", "5", "-1", "100"}
IntOf(s) ==
  CASE s = "0" -> 0
    [] s = "1" -> 1
    [] s = "2" -> 2
    [] s = "5" -> 5
    [] s = "-1" -> 0 - 1
    [] s = "100" -> 100
    [] OTHER -> 0

(* ------------------------------------------------------------- Feedback  *)
\* date_created = models.DateTimeField(default=datetime.now): the wall clock
\* is read when the instance is built
DateCreatedStale(clock) == 0
DateCreatedDefault(clock) == clock

\* Feedback.objects.create(rating=.., text=..): id defaults to uuid4() (the
\* id drawn by the caller), rating is converted by the IntegerField, and the
\* primary key constraint rejects an id that is already stored
CanConvert(rating) == rating \in IntStrings
PkUnchecked(s, id) == TRUE
PkAccepts(s, id) == \A r \in s : r.id # id

NewFeedback(id, rating, text, clock) ==
  [rating |-> IntOf(rating), id |-> id, text |-> text,
   date_created |-> DateCreatedDefault(clock)]

\* the exception create() raises, "" when the row is inserted
CreateError(s, id, rating) ==
  IF ~CanConvert(rating) THEN "ValueError"
  ELSE IF ~PkAccepts(s, id) THEN "IntegrityError"
  ELSE ""

\* "except Error as e": Error is msilib.schema.Error, a table description
\* and no exception class, so matching the exception create() raised against
\* it raises TypeError, which leaves the view uncaught
ExceptError(raised) == "TypeError"

(* ------------------------------------------------------------ serializer *)
Serialize(r) ==
  [rating |-> r.rating, id |-> r.id, text |-> r.text,
   date_created |-> r.date_created]

SerializeMany(q) == [i \in 1..Len(q) |-> Serialize(q[i])]

(* --------------------------------------------------------------- queries *)
\* the orderings of the rows of s a query may return
Orderings(s) ==
  {q \in [1..Cardinality(s) -> s] : \A i, j \in 1..Cardinality(s) : i # j => q[i] # q[j]}

IsDescending(q) == \A i \in 1..(Len(q) - 1) : q[i].date_created >= q[i + 1].date_created

\* Feedback.objects.all().order_by("-date_created"); rows with equal dates
\* come in any order
AllUnordered(s) == Orderings(s)
AllOrderByDateDesc(s) == {q \in Orderings(s) : IsDescending(q)}

(* ---------------------------------------------------------------- guards *)
\* check_method(method): [pass, data, resp]; request.POST holds the form
\* fields of a POST request, request.GET the query string
RequestPOST(r) ==
  IF r.method = "POST" /\ r.body = "form" THEN r.form ELSE EmptyDict
RequestGET(r) == r.query

CheckMethodAny(method, r) ==
  [resp |-> NoResponse, data |-> r.form, pass |-> TRUE]
CheckMethod(method, r) ==
  IF r.method = method
    THEN [resp |-> NoResponse,
          data |-> IF method \notin {"POST", "GET"} THEN r.form
                   ELSE IF method = "POST" THEN RequestPOST(r)
                   ELSE RequestGET(r),
          pass |-> TRUE]
    ELSE [resp |-> ErrorResponse("Invalid Method", 400),
          data |-> EmptyDict, pass |-> FALSE]

\* required_fields(list_of_fields): the response for the first field of the
\* list that request.data lacks, NoResponse when none is missing
RECURSIVE RequiredFieldsLast(_, _)
RequiredFieldsLast(fields, data) ==
  IF fields = <<>> THEN NoResponse
  ELSE IF fields[Len(fields)] \notin DOMAIN data
    THEN ErrorResponse("Missing key " \o fields[Len(fields)], 400)
    ELSE RequiredFieldsLast(SubSeq(fields, 1, Len(fields) - 1), data)

RECURSIVE RequiredFields(_, _)
RequiredFields(fields, data) ==
  IF fields = <<>> THEN NoResponse
  ELSE IF Head(fields) \notin DOMAIN data
    THEN ErrorResponse("Missing key " \o Head(fields), 400)
    ELSE RequiredFields(Tail(fields), data)

PostRequired == <<"rating", "text">>

(* ------------------------------------------------------------- endpoints *)
\* body: "form" is URL-encoded form data (the fields of form), "json" a
\* JSON document, "bad" bytes that are neither, "empty" no body; only a
\* form body gives request.POST any field
\* data is request.data as an earlier guard left it, user the state of
\* request.user; the two endpoints use neither
GetRequests ==
  [data : {EmptyDict}, method : Methods, body : {"empty"}, form : {EmptyDict},
   query : {EmptyDict}, user : {"anonymous"}]
PostRequests ==
  [data : {EmptyDict}, method : {"POST"}, body : {"form"}, form : FormDicts,
   query : {EmptyDict}, user : {"anonymous"}]
    \cup [data : {EmptyDict}, method : {"POST"}, body : {"json", "bad"},
          form : {EmptyDict}, query : {EmptyDict}, user : {"anonymous"}]
    \cup [data : {EmptyDict}, method : Methods \ {"POST"}, body : {"form"},
          form : {f \in FormDicts : DOMAIN f \in {{}, {"rating", "text"}}},
          query : {EmptyDict}, user : {"anonymous"}]

\* get_feedback
GetFeedback(r) ==
  /\ op' = "get_feedback"
  /\ req' = r
  /\ LET m == CheckMethod("GET", r) IN
       IF ~m.pass THEN resp' = m.resp
       ELSE \E q \in AllOrderByDateDesc(store) : resp' = OkData(SerializeMany(q))
  /\ UNCHANGED <<store, now, created>>

\* the accepted creates so far: for every (rating, text) sent, the latest
\* clock reading taken just before one of its creates
SamePair(c, e) == c.rating = e.rating /\ c.text = e.text
Remember(cs, e) ==
  IF \E c \in cs : SamePair(c, e) /\ c.before >= e.before
    THEN cs
    ELSE {c \in cs : ~SamePair(c, e)} \cup {e}

\* post_feedback; the instance is built with id = uuid4() and
\* date_created = datetime.now(), read some time (elapsed) after the request
\* arrived
PostFeedback(r) ==
  /\ op' = "post_feedback"
  /\ req' = r
  /\ LET m == CheckMethod("POST", r)
         f == RequiredFields(PostRequired, m.data) IN
       IF ~m.pass THEN
         /\ resp' = m.resp
         /\ UNCHANGED <<store, now, created>>
       ELSE IF f # NoResponse THEN
         /\ resp' = f
         /\ UNCHANGED <<store, now, created>>
       ELSE
         \E id \in Ids, elapsed \in 0..1 :
           LET rating == m.data["rating"]
               text == m.data["text"]
               err == CreateError(store, id, rating) IN
             /\ now + elapsed <= MaxTime
             /\ now' = now + elapsed
             /\ IF err # ""
                  THEN /\ resp' = Raise(ExceptError(err))
                       /\ UNCHANGED <<store, created>>
                  ELSE /\ store' = store \cup {NewFeedback(id, rating, text, now')}
                       /\ resp' = OkResponse
                       /\ created' = Remember(created,
                            [rating |-> rating, text |-> text, before |-> now])

\* the wall clock (datetime.now) between requests: it advances, and it can be
\* set back
Tick ==
  /\ now < MaxTime
  /\ now' = now + 1
  /\ op' = "tick"
  /\ UNCHANGED <<store, req, resp, created>>

ClockSetBack ==
  /\ \E t \in Times : t < now /\ now' = t
  /\ op' = "clock_set_back"
  /\ UNCHANGED <<store, req, resp, created>>

NoRequest ==
  [data |-> EmptyDict, method |-> "GET", body |-> "empty", form |-> EmptyDict,
   query |-> EmptyDict, user |-> "anonymous"]

Init ==
  /\ store = {}
  /\ now = 0
  /\ op = "init"
  /\ req = NoRequest
  /\ resp = NoResponse
  /\ created = {}

Next ==
  \/ \E r \in GetRequests : GetFeedback(r)
  \/ \E r \in PostRequests : PostFeedback(r)
  \/ Tick
  \/ ClockSetBack

Spec == Init /\ [][Next]_vars

(* ========================================================= Python values *)
\* the values request.data can hold: form and query data hold strings, a
\* JSON body also booleans, integers and null
PyStr(x) == [type |-> "str", str |-> x, num |-> 0, bool |-> FALSE]
PyInt(k) == [type |-> "int", str |-> "", num |-> k, bool |-> FALSE]
PyBool(v) == [type |-> "bool", str |-> "", num |-> 0, bool |-> v]
PyNone == [type |-> "NoneType", str |-> "", num |-> 0, bool |-> FALSE]

Truthy(v) ==
  CASE v.type = "str" -> v.str # ""
    [] v.type = "int" -> v.num # 0
    [] v.type = "bool" -> v.bool
    [] OTHER -> FALSE

\* dict.get(key, default)
Get(d, k, default) == IF k \in DOMAIN d THEN d[k] ELSE default

\* str.lower()
Lower(x) ==
  CASE x = "True" -> "true"
    [] x = "False" -> "false"
    [] x = "TRUE" -> "true"
    [] OTHER -> x

\* distutils.util.strtobool(val): "1", "0", or the exception it raises
TrueWords == {"y", "yes", "t", "true", "on", "1"}
FalseWords == {"n", "no", "f", "false", "off", "0"}

StrToBoolDigitsSwapped(v) ==
  IF v.type # "str" THEN "AttributeError"
  ELSE IF Lower(v.str) \in (TrueWords \ {"1"}) \cup {"0"} THEN "1"
  ELSE IF Lower(v.str) \in (FalseWords \ {"0"}) \cup {"1"} THEN "0"
  ELSE "ValueError"
StrToBool(v) ==
  IF v.type # "str" THEN "AttributeError"
  ELSE IF Lower(v.str) \in TrueWords THEN "1"
  ELSE IF Lower(v.str) \in FalseWords THEN "0"
  ELSE "ValueError"

\* int(value): [exc, n]
PyIntOf(v) ==
  CASE v.type = "str" ->
         IF v.str \in IntStrings THEN [exc |-> "", n |-> IntOf(v.str)]
         ELSE [exc |-> "ValueError", n |-> 0]
    [] v.type = "int" -> [exc |-> "", n |-> v.num]
    [] v.type = "bool" -> [exc |-> "", n |-> IF v.bool THEN 1 ELSE 0]
    [] OTHER -> [exc |-> "TypeError", n |-> 0]

(* =========================================================== more guards *)
INVALID_TRUTH_VALUE == "Truth values passed from front end is not correct"
LOGIN_REQUIRED_ERROR == "Login Required. Please Sign In."
INSUFFICIENT_PRIVILEDGE == "Insufficient Priviledge!"
InvalidPaginationValue(name) == "Invalid " \o name \o " Value For Pagination"

\* login_required
LoginRequired(r) ==
  IF r.user # "anonymous"
    THEN IF r.user = "active" THEN Call(<<>>, <<>>)
         ELSE ErrorResponse(INSUFFICIENT_PRIVILEDGE, 401)
    ELSE ErrorResponse(LOGIN_REQUIRED_ERROR, 401)

\* json.loads(request.body.decode("utf-8")) and QueryDict(request.body):
\* the exception each raises on a body, "" when it parses
JsonLoadsError(body) ==
  CASE body = "json" -> ""
    [] body = "latin1" -> "UnicodeDecodeError"
    [] OTHER -> "JSONDecodeError"
QueryDictError(body) == IF body = "bad" THEN "TooManyFieldsSent" ELSE ""

\* the try/except of both convert_json_* guards
ConvertBody(r) ==
  IF JsonLoadsError(r.body) = "" THEN Call(<<>>, <<>>)
  ELSE IF JsonLoadsError(r.body) # "JSONDecodeError" THEN Raise(JsonLoadsError(r.body))
  ELSE IF QueryDictError(r.body) = "" THEN Call(<<>>, <<>>)
  ELSE ErrorResponse("Unrecognisable Format", 400)

\* convert_json_to_POST_data
ConvertJsonToPOSTData(r) ==
  IF r.method \in {"POST", "PUT"} /\ r.body # "empty"
    THEN ConvertBody(r)
    ELSE Call(<<>>, <<>>)

\* convert_json_to_request_data
ConvertJsonToRequestData(r) ==
  IF r.method \in {"POST", "PUT"}
    THEN IF r.body # "empty" THEN ConvertBody(r) ELSE Call(<<>>, <<>>)
    ELSE ErrorResponse("Invalid Method", 400)

\* required_json_fields(list_of_fields)
RECURSIVE RequiredJsonFields(_, _)
RequiredJsonFields(fields, data) ==
  IF fields = <<>> THEN Call(<<>>, <<>>)
  ELSE IF Head(fields) \notin DOMAIN data
    THEN ErrorResponse("Missing key " \o Head(fields), 400)
    ELSE RequiredJsonFields(Tail(fields), data)

\* check_boolean_field(list_of_fields): kw collects bool_kwargs
RECURSIVE CheckBooleanFieldLoop(_, _, _)
CheckBooleanFieldLoop(fields, data, kw) ==
  IF fields = <<>> THEN Call(<<>>, kw)
  ELSE
    LET field == Head(fields)
        value == Get(data, field, PyNone) IN
      IF value.type = "bool"
        THEN CheckBooleanFieldLoop(Tail(fields), data, Append(kw, <<field, value.bool>>))
      ELSE IF Truthy(value)
        THEN LET c == StrToBool(value) IN
               IF c = "ValueError"
                 THEN ErrorResponse("Invalid boolean format for " \o field, 400)
               ELSE IF c = "AttributeError" THEN Raise(c)
               ELSE CheckBooleanFieldLoop(Tail(fields), data,
                                          Append(kw, <<field, c = "1">>))
      ELSE CheckBooleanFieldLoop(Tail(fields), data, kw)

CheckBooleanField(fields, data) == CheckBooleanFieldLoop(fields, data, <<>>)

\* check_token: SECRET_KEY and TOKEN are defined nowhere
CheckToken(data) ==
  IF "secret" \notin DOMAIN data \/ "token" \notin DOMAIN data
    THEN Raise("KeyError")
    ELSE Raise("NameError")

\* check_limit
CheckLimit(query) ==
  LET limit == Get(query, "limit", PyBool(FALSE)) IN
    IF Truthy(limit)
      THEN IF PyIntOf(limit).exc = "" THEN Call(<<PyInt(PyIntOf(limit).n)>>, <<>>)
           ELSE IF PyIntOf(limit).exc = "ValueError"
             THEN ErrorResponse("'limit' Has To Be Integer!", 400)
           ELSE Raise(PyIntOf(limit).exc)
      ELSE Call(<<limit>>, <<>>)

\* bool_check(list_of_fields): the bare except catches whatever strtobool
\* raises; acc collects strtobool_list
RECURSIVE BoolCheckLoop(_, _, _)
BoolCheckLoop(fields, data, acc) ==
  IF fields = <<>> THEN Call(acc, <<>>)
  ELSE
    LET c == StrToBool(Get(data, Head(fields), PyNone)) IN
      IF c \in {"0", "1"}
        THEN BoolCheckLoop(Tail(fields), data, Append(acc, c = "1"))
        ELSE ErrorResponse(INVALID_TRUTH_VALUE, 400)

BoolCheck(fields, data) == BoolCheckLoop(fields, data, <<>>)

\* get_project: Project is defined nowhere
GetProject(data) ==
  IF Truthy(Get(data, "project_id", PyNone))
    THEN Raise("NameError")
    ELSE Call(<<PyNone>>, <<>>)

(* ------------------------------------------------------------ pagination *)
\* the defaults of pagination()'s signature
DefaultPage == 1
DefaultItemsPerPage == 100
DefaultIsAscending == FALSE
PyBoolStr(v) == IF v THEN "True" ELSE "False"

SignedSortKeyInverted(sort_by, is_ascending) ==
  IF is_ascending THEN "-" \o sort_by ELSE sort_by
SignedSortKey(sort_by, is_ascending) ==
  IF ~is_ascending THEN "-" \o sort_by ELSE sort_by

\* int(request.data.get(name, default)) with the "< 1" check:
\* [exc, n], ValueError being the caught one
PositiveInt(data, name, default) ==
  LET c == PyIntOf(Get(data, name, PyInt(default))) IN
    IF c.exc = "" /\ c.n < 1 THEN [exc |-> "ValueError", n |-> 0] ELSE c

\* pagination(default_sort_by, fields)
Pagination(default_sort_by, fields, data) ==
  LET sort_by == Get(data, "sort_by", PyStr(default_sort_by))
      page == PositiveInt(data, "page", DefaultPage)
      items_per_page == PositiveInt(data, "items_per_page", DefaultItemsPerPage)
      is_ascending ==
        StrToBool(Get(data, "is_ascending", PyStr(PyBoolStr(DefaultIsAscending))))
  IN
    IF ~(sort_by.type = "str" /\ \E i \in 1..Len(fields) : fields[i] = sort_by.str)
      THEN ErrorResponse(InvalidPaginationValue("sort_by"), 400)
    ELSE IF page.exc = "ValueError"
      THEN ErrorResponse(InvalidPaginationValue("page"), 400)
    ELSE IF page.exc # "" THEN Raise(page.exc)
    ELSE IF items_per_page.exc = "ValueError"
      THEN ErrorResponse(InvalidPaginationValue("items_per_page"), 400)
    ELSE IF items_per_page.exc # "" THEN Raise(items_per_page.exc)
    ELSE IF is_ascending = "ValueError"
      THEN ErrorResponse(InvalidPaginationValue("is_ascending"), 400)
    ELSE IF is_ascending = "AttributeError" THEN Raise(is_ascending)
    ELSE Call(<<PyInt(page.n), PyInt(items_per_page.n),
                PyStr(SignedSortKey(sort_by.str, is_ascending = "1"))>>, <<>>)

(* ------------------------------------------------- guards, one at a time *)
\* each guard wraps an arbitrary view and is applied to one request
BoolFields == <<"a", "b">>
BoolValues ==
  {PyStr("true"), PyStr("1"), PyStr("false"), PyStr("0"), PyStr("maybe"),
   PyStr(""), PyBool(TRUE), PyBool(FALSE), PyInt(1), PyNone}
BoolData == Dicts({"a", "b"}, BoolValues)

SortFields == <<"date_created", "rating">>
DefaultSortBy == "date_created"
PaginationData ==
  {Merge(Merge(a, b), Merge(c, e)) :
     a \in Optional("sort_by",
                    {PyStr("date_created"), PyStr("rating"), PyStr("secret")}),
     b \in Optional("page", {PyStr("1"), PyStr("2"), PyStr("0"), PyStr("abc"),
                             PyInt(2), PyNone}),
     c \in Optional("items_per_page", {PyStr("2"), PyStr("0"), PyStr("abc")}),
     e \in Optional("is_ascending", {PyStr("true"), PyStr("False"),
                                     PyStr("maybe"), PyBool(TRUE)})}

TokenData == Dicts({"secret", "token"}, {PyStr("s3cret")})
LimitQueries == Dicts({"limit"}, {PyStr("5"), PyStr("abc"), PyStr("")})
ProjectData == Dicts({"project_id"}, {PyStr("7"), PyStr("")})
JsonFieldData == Dicts({"rating", "text"}, {PyInt(5), PyStr("good")})
Bodies == {"empty", "json", "form", "bad", "latin1"}
Users == {"anonymous", "inactive", "active"}

ApplyLoginRequired ==
  /\ \E u \in Users :
       /\ req' = [NoRequest EXCEPT !.user = u]
       /\ resp' = LoginRequired(req')
  /\ op' = "login_required"
  /\ UNCHANGED <<store, now, created>>

ApplyConvertJsonToPOSTData ==
  /\ \E m \in Methods \cup {"PUT"}, b \in Bodies :
       /\ req' = [NoRequest EXCEPT !.method = m, !.body = b]
       /\ resp' = ConvertJsonToPOSTData(req')
  /\ op' = "convert_json_to_POST_data"
  /\ UNCHANGED <<store, now, created>>

ApplyConvertJsonToRequestData ==
  /\ \E m \in Methods \cup {"PUT"}, b \in Bodies :
       /\ req' = [NoRequest EXCEPT !.method = m, !.body = b]
       /\ resp' = ConvertJsonToRequestData(req')
  /\ op' = "convert_json_to_request_data"
  /\ UNCHANGED <<store, now, created>>

ApplyRequiredJsonFields ==
  /\ \E d \in JsonFieldData :
       /\ req' = [NoRequest EXCEPT !.data = d, !.method = "POST"]
       /\ resp' = RequiredJsonFields(PostRequired, d)
  /\ op' = "required_json_fields"
  /\ UNCHANGED <<store, now, created>>

ApplyCheckBooleanField ==
  /\ \E d \in BoolData :
       /\ req' = [NoRequest EXCEPT !.data = d]
       /\ resp' = CheckBooleanField(BoolFields, d)
  /\ op' = "check_boolean_field"
  /\ UNCHANGED <<store, now, created>>

\* check_method("PUT") takes request.data from the body
ApplyCheckMethod ==
  /\ \E m \in Methods \cup {"PUT"}, f \in FormDicts :
       /\ req' = [NoRequest EXCEPT !.method = m, !.body = "form", !.form = f]
       /\ resp' = IF CheckMethod("PUT", req').pass THEN Call(<<>>, <<>>)
                  ELSE CheckMethod("PUT", req').resp
  /\ op' = "check_method"
  /\ UNCHANGED <<store, now, created>>

ApplyCheckToken ==
  /\ \E d \in TokenData :
       /\ req' = [NoRequest EXCEPT !.data = d]
       /\ resp' = CheckToken(d)
  /\ op' = "check_token"
  /\ UNCHANGED <<store, now, created>>

ApplyCheckLimit ==
  /\ \E q \in LimitQueries :
       /\ req' = [NoRequest EXCEPT !.query = q]
       /\ resp' = CheckLimit(q)
  /\ op' = "check_limit"
  /\ UNCHANGED <<store, now, created>>

ApplyPagination ==
  /\ \E d \in PaginationData :
       /\ req' = [NoRequest EXCEPT !.data = d]
       /\ resp' = Pagination(DefaultSortBy, SortFields, d)
  /\ op' = "pagination"
  /\ UNCHANGED <<store, now, created>>

ApplyBoolCheck ==
  /\ \E d \in BoolData :
       /\ req' = [NoRequest EXCEPT !.data = d]
       /\ resp' = BoolCheck(BoolFields, d)
  /\ op' = "bool_check"
  /\ UNCHANGED <<store, now, created>>

ApplyGetProject ==
  /\ \E d \in ProjectData :
       /\ req' = [NoRequest EXCEPT !.data = d]
       /\ resp' = GetProject(d)
  /\ op' = "get_project"
  /\ UNCHANGED <<store, now, created>>

GuardNext ==
  \/ ApplyLoginRequired
  \/ ApplyConvertJsonToPOSTData
  \/ ApplyConvertJsonToRequestData
  \/ ApplyRequiredJsonFields
  \/ ApplyCheckBooleanField
  \/ ApplyCheckMethod
  \/ ApplyCheckToken
  \/ ApplyCheckLimit
  \/ ApplyPagination
  \/ ApplyBoolCheck
  \/ ApplyGetProject

GuardSpec == Init /\ [][GuardNext]_vars

(* ================================================================ claims *)
IsGet == op = "get_feedback"
IsPost == op = "post_feedback"
Listed == IsGet /\ resp.kind = "response" /\ resp.ok
\* a create request that passes check_method and required_fields
PassesGuards ==
  /\ IsPost
  /\ req.method = "POST"
  /\ req.body = "form"
  /\ {"rating", "text"} \subseteq DOMAIN req.form

\* C1: once a create request with (rating, text) was answered {"ok": true},
\* every listing contains a record with that rating (as an integer) and that
\* text whose date_created is at least the time just before the creation,
\* whatever requests came in between.
C1_CreateThenList ==
  Listed =>
    \A c \in created :
      \E i \in 1..Len(resp.data) :
        /\ resp.data[i].rating = IntOf(c.rating)
        /\ resp.data[i].text = c.text
        /\ resp.data[i].date_created >= c.before

C1_Witness ==
  /\ Listed
  /\ \E c, d \in created : c.rating # d.rating /\ c.before > 0
  /\ Len(resp.data) >= 2

\* C2: a listing returns every stored record, each once, newest first: for
\* every two adjacent records the earlier has date_created >= the later.
C2_ListedNewestFirst ==
  Listed =>
    /\ Len(resp.data) = Cardinality(store)
    /\ \A r \in store : \E i \in 1..Len(resp.data) : resp.data[i] = Serialize(r)
    /\ \A i \in 1..(Len(resp.data) - 1) :
         resp.data[i].date_created >= resp.data[i + 1].date_created

\* a listing of at least two records whose dates differ
C2_Witness ==
  /\ Listed
  /\ Len(resp.data) >= 2
  /\ resp.data[1].date_created > resp.data[Len(resp.data)].date_created

\* C3: a list request that is not GET, or a create request that is not
\* POST, is answered 400 "Invalid Method" and leaves the store unchanged,
\* whatever fields it carries.
C3_InvalidMethod ==
  [][((IsGet' /\ req'.method # "GET") \/ (IsPost' /\ req'.method # "POST"))
       => /\ resp' = ErrorResponse("Invalid Method", 400)
          /\ store' = store]_vars

C3_Witness ==
  /\ IsPost
  /\ req.method = "DELETE"
  /\ req.body = "form"
  /\ "rating" \notin DOMAIN req.form
  /\ resp.error = "Invalid Method"
  /\ store # {}

\* C4: a POST to the create endpoint that lacks rating or text is answered
\* 400 "Missing key <field>" naming the first missing field in declared
\* order (rating before text), and no record is created.
FirstMissing(form) == IF "rating" \notin DOMAIN form THEN "rating" ELSE "text"

C4_MissingField ==
  [][(/\ IsPost'
      /\ req'.method = "POST"
      /\ req'.body = "form"
      /\ ~({"rating", "text"} \subseteq DOMAIN req'.form))
       => /\ resp' = ErrorResponse("Missing key " \o FirstMissing(req'.form), 400)
          /\ store' = store]_vars

C4_Witness ==
  /\ IsPost
  /\ req.method = "POST"
  /\ req.body = "form"
  /\ DOMAIN req.form = {}
  /\ resp.error = "Missing key rating"
  /\ resp.status = 400

\* C5: a POST to the create endpoint that passes both guards is always
\* answered {"ok": true}, also when the store rejects the insert.
C5_AlwaysOk == PassesGuards => resp = OkResponse

\* C6 (as claimed): the store is append-only, every create request that
\* passes its guards adds exactly one record, no other request changes the
\* store, and ids are pairwise distinct.
IdsDistinct(s) == \A a, b \in s : a.id = b.id => a = b

C6_ExactlyOnePerRequest ==
  [][/\ store \subseteq store'
     /\ IdsDistinct(store')
     /\ (PassesGuards' => Cardinality(store' \ store) = 1)
     /\ (~PassesGuards' => store' = store)]_vars

\* C6 (amended): the store is append-only; a record is created only by a
\* create request that passes its guards, which adds exactly one record when
\* the insert is accepted (it is then answered {"ok": true}) and none when
\* the store rejects it; stored records never change and ids are distinct.
C6_AppendOnly ==
  [][/\ store \subseteq store'
     /\ IdsDistinct(store')
     /\ (store' # store =>
           PassesGuards' /\ resp' = OkResponse /\ Cardinality(store' \ store) = 1)
     /\ (~PassesGuards' => store' = store)
     /\ (PassesGuards' /\ resp'.ok => Cardinality(store' \ store) = 1)
     /\ (PassesGuards' /\ ~resp'.ok => store' = store)]_vars

\* a create request with an integer rating is rejected for its id
C6_Witness ==
  /\ PassesGuards
  /\ req.form["rating"] \in IntStrings
  /\ resp.kind = "raise"
  /\ Cardinality(store) = NumIds

\* C7 (as claimed): a POST to the create endpoint whose body is neither JSON
\* nor form data is answered 400 "Unrecognisable Format", and no record is
\* created.
C7_UnrecognisableFormat ==
  [][(IsPost' /\ req'.method = "POST" /\ req'.body = "bad")
       => /\ resp' = ErrorResponse("Unrecognisable Format", 400)
          /\ store' = store]_vars

\* C7 (amended): such a request is answered 400 "Missing key rating" by the
\* required-fields guard, and no record is created.
C7_MissingKeyInstead ==
  [][(IsPost' /\ req'.method = "POST" /\ req'.body = "bad")
       => /\ resp' = ErrorResponse("Missing key rating", 400)
          /\ store' = store]_vars

C7_Witness ==
  /\ IsPost
  /\ req.method = "POST"
  /\ req.body = "bad"
  /\ resp.status = 400
  /\ store # {}

(* ---------------------------------------------------------- guard claims *)
\* C8: every guard answers every input with a response, never with an
\* uncaught exception, and every failure response is {"ok": false, "error":
\* <message>} with status 400 or 401; only check_token raises, and only
\* when secret or token is missing.
C8_NoOperationFatal ==
  op # "init" =>
    /\ (op # "check_token" => resp.kind # "raise")
    /\ (op = "check_token" /\ resp.kind = "raise"
          => ~({"secret", "token"} \subseteq DOMAIN req.data))
    /\ (resp.kind = "response" /\ ~resp.ok
          => resp.status \in {400, 401} /\ resp.error # "")

\* C9: pagination validates sort_by, page, items_per_page and is_ascending
\* in that order and answers the first invalid one with 400 naming it,
\* without calling the view; otherwise it calls the view with page,
\* items_per_page and the sort field, prefixed with "-" exactly when
\* is_ascending is false, which it is when is_ascending is not supplied.
Has(d, k) == k \in DOMAIN d
SortByGood(d) ==
  ~Has(d, "sort_by") \/ d["sort_by"] \in {PyStr("date_created"), PyStr("rating")}
PageGood(d) == ~Has(d, "page") \/ d["page"] \in {PyStr("1"), PyStr("2"), PyInt(2)}
PageBad(d) == Has(d, "page") /\ d["page"] \in {PyStr("0"), PyStr("abc")}
ItemsGood(d) == ~Has(d, "items_per_page") \/ d["items_per_page"] = PyStr("2")
ItemsBad(d) ==
  Has(d, "items_per_page") /\ d["items_per_page"] \in {PyStr("0"), PyStr("abc")}
AscGood(d) ==
  ~Has(d, "is_ascending") \/ d["is_ascending"] \in {PyStr("true"), PyStr("False")}
AscBad(d) == Has(d, "is_ascending") /\ d["is_ascending"] = PyStr("maybe")

PageWanted(d) ==
  IF ~Has(d, "page") THEN 1 ELSE IF d["page"] = PyStr("1") THEN 1 ELSE 2
ItemsWanted(d) == IF ~Has(d, "items_per_page") THEN 100 ELSE 2
FieldWanted(d) == IF Has(d, "sort_by") THEN d["sort_by"].str ELSE "date_created"
KeyWanted(d) ==
  IF Has(d, "is_ascending") /\ d["is_ascending"] = PyStr("true")
    THEN FieldWanted(d)
    ELSE "-" \o FieldWanted(d)

PaginationError(name) ==
  ErrorResponse("Invalid " \o name \o " Value For Pagination", 400)

Coercible ==
  {PyStr("true"), PyStr("1"), PyBool(TRUE), PyStr("false"), PyStr("0"), PyBool(FALSE)}
StrCoercible == {PyStr("true"), PyStr("1"), PyStr("false"), PyStr("0")}
Coerced(v) == v \in {PyStr("true"), PyStr("1"), PyBool(TRUE)}

\* the values the view receives, positional or keyword, in order
Supplied(result) ==
  IF result.kwargs # <<>>
    THEN [i \in 1..Len(result.kwargs) |-> result.kwargs[i][2]]
    ELSE result.args

C10_BooleanCoercion ==
  op \in {"bool_check", "check_boolean_field"} =>
    LET d == req.data IN
      /\ (DOMAIN d = {"a", "b"} /\ d["a"] \in Coercible /\ d["b"] \in Coercible
            => /\ resp.kind = "call"
               /\ Supplied(resp) = <<Coerced(d["a"]), Coerced(d["b"])>>)
      /\ ((/\ DOMAIN d = {"a", "b"}
           /\ d["a"] \in Coercible \cup {PyStr("maybe")}
           /\ d["b"] \in Coercible \cup {PyStr("maybe")}
           /\ PyStr("maybe") \in {d["a"], d["b"]})
            => resp.kind = "response" /\ resp.status = 400 /\ ~resp.ok)

\* C10 (amended): check_boolean_field coerces the six inputs and hands them
\* over as keyword inputs in listed order, leaving out absent fields, and
\* answers the first field holding "maybe" with 400 "Invalid boolean format
\* for <field>"; bool_check coerces the four strings only, hands them over
\* positionally in listed order, and answers a listed field that is a JSON
\* boolean, "maybe" or absent with 400.
KwWanted(d) ==
  (IF Has(d, "a") THEN << <<"a", Coerced(d["a"])>> >> ELSE <<>>)
    \o (IF Has(d, "b") THEN << <<"b", Coerced(d["b"])>> >> ELSE <<>>)

C10_TwoGuards ==
  LET d == req.data IN
    /\ op = "check_boolean_field" =>
         /\ ((\A f \in DOMAIN d : d[f] \in Coercible)
               => resp = Call(<<>>, KwWanted(d)))
         /\ (Has(d, "a") /\ d["a"] = PyStr("maybe")
               => resp = ErrorResponse("Invalid boolean format for a", 400))
         /\ ((~Has(d, "a") \/ d["a"] \in Coercible)
               /\ Has(d, "b") /\ d["b"] = PyStr("maybe")
               => resp = ErrorResponse("Invalid boolean format for b", 400))
    /\ op = "bool_check" =>
         /\ (DOMAIN d = {"a", "b"} /\ d["a"] \in StrCoercible /\ d["b"] \in StrCoercible
               => resp = Call(<<Coerced(d["a"]), Coerced(d["b"])>>, <<>>))
         /\ ((\E f \in {"a", "b"} :
                ~Has(d, f) \/ d[f] \in {PyBool(TRUE), PyBool(FALSE), PyStr("maybe")})
               => resp = ErrorResponse(INVALID_TRUTH_VALUE, 400))

C10_Witness ==
  /\ op = "bool_check"
  /\ DOMAIN req.data = {"a", "b"}
  /\ req.data["a"] = PyStr("1")
  /\ req.data["b"] = PyBool(TRUE)
  /\ resp.status = 400
====
